---- MODULE Spec2Model ----
(***************************************************************************)
(* Model of pySDC's first-order IMEX sweeper (imex_1st_order) with the     *)
(* bit-flip fault injection of Plugins/bitflip.py, operating on one Level, *)
(* and of the parallel-in-time controller that drives a block of Steps.    *)
(*                                                                         *)
(* Numbers.  The program computes in float64.  The model computes in exact *)
(* integers (a fixed-point view of the finite values) extended by the IEEE *)
(* special values +Inf, -Inf and NaN, with IEEE rules for the specials.    *)
(* Rounding of float64 arithmetic is not modelled.  The float32 format     *)
(* that do_bitflip narrows to is modelled as a binary floating-point       *)
(* format of the same layout (sign, exponent, mantissa) with ExpBits       *)
(* exponent bits and ManBits mantissa bits; the unit of the integers is    *)
(* the smallest subnormal of that format.                                  *)
(***************************************************************************)
EXTENDS Integers, Sequences, FiniteSets, TLC

----------------------------------------------------------------------------
(* Bounds of the model *)

\* number of spatial unknowns of the problem (P.nvars)
NVars == 2
\* exponent and mantissa width of the narrow float format
ExpBits == 3
ManBits == 1
\* number of sweeper calls in one behaviour
MaxCalls == 2
\* number of magnitudes the initial values are drawn from
MaxInit == 2
\* controller: Steps of a block, blocks of a run, iteration bound (maxiter)
NSteps == 2
NBlocks == 2
MaxIter == 2

----------------------------------------------------------------------------
(* Scalars: finite integers and the IEEE specials *)

Fin(n) == [k |-> "fin", v |-> n]
PInf == [k |-> "inf", v |-> 1]
NInf == [k |-> "inf", v |-> -1]
NaN == [k |-> "nan", v |-> 0]

IsFin(a) == a.k = "fin"
IsNaN(a) == a.k = "nan"
IsInf(a) == a.k = "inf"

Sign(n) == IF n > 0 THEN 1 ELSE IF n < 0 THEN -1 ELSE 0
Abs(n) == IF n < 0 THEN -n ELSE n

\* a + b on floats
sAdd(a, b) ==
    IF IsNaN(a) \/ IsNaN(b) THEN NaN
    ELSE IF IsInf(a) /\ IsInf(b) THEN (IF a.v = b.v THEN a ELSE NaN)
    ELSE IF IsInf(a) THEN a
    ELSE IF IsInf(b) THEN b
    ELSE Fin(a.v + b.v)

\* c * a on floats, c a finite number
sScale(c, a) ==
    IF IsNaN(a) THEN NaN
    ELSE IF IsInf(a) THEN (IF c = 0 THEN NaN ELSE [k |-> "inf", v |-> Sign(c) * a.v])
    ELSE Fin(c * a.v)

sNeg(a) == sScale(-1, a)
sSub(a, b) == sAdd(a, sNeg(b))
sAbs(a) == IF IsFin(a) THEN Fin(Abs(a.v)) ELSE IF IsInf(a) THEN PInf ELSE NaN

\* a / d on floats for a finite number d >= 1 (rounded towards zero)
sDiv(a, d) ==
    IF IsFin(a) THEN Fin(Sign(a.v) * (Abs(a.v) \div d)) ELSE a

\* Python's a > b on floats: False as soon as one side is NaN
sGt(a, b) ==
    IF IsNaN(a) \/ IsNaN(b) THEN FALSE
    ELSE IF IsInf(a) THEN a.v = 1 /\ b # PInf
    ELSE IF IsInf(b) THEN b.v = -1
    ELSE a.v > b.v

\* max of two floats as numpy's max: NaN wins
sMax(a, b) ==
    IF IsNaN(a) \/ IsNaN(b) THEN NaN ELSE IF sGt(b, a) THEN b ELSE a

----------------------------------------------------------------------------
(* StateVectors: NVars scalars *)

Idx == 1..NVars
vConst(a) == [i \in Idx |-> a]
vZero == vConst(Fin(0))
vAdd(x, y) == [i \in Idx |-> sAdd(x[i], y[i])]
vSub(x, y) == [i \in Idx |-> sSub(x[i], y[i])]
vScale(c, x) == [i \in Idx |-> sScale(c, x[i])]

RECURSIVE maxAbs(_, _)
maxAbs(x, n) == IF n = 1 THEN sAbs(x[1]) ELSE sMax(maxAbs(x, n - 1), sAbs(x[n]))
\* np.linalg.norm(x, np.inf)
norm_inf(x) == maxAbs(x, NVars)

----------------------------------------------------------------------------
(* Plugins/bitflip.py *)

Pow2(n) == 2 ^ n
\* width of exponent plus mantissa; the sign is the bit above them
MagBits == ExpBits + ManBits
ExpAllOnes == Pow2(ExpBits) - 1

\* value of the non-negative float whose magnitude bits are g
Decode(g) ==
    LET e == g \div Pow2(ManBits)
        mant == g % Pow2(ManBits)
    IN  IF e = ExpAllOnes THEN (IF mant = 0 THEN PInf ELSE NaN)
        ELSE IF e = 0 THEN Fin(mant)
        ELSE Fin((Pow2(ManBits) + mant) * Pow2(e - 1))

MaxFinBits == ExpAllOnes * Pow2(ManBits) - 1
MaxFin == Decode(MaxFinBits).v
\* a finite value this large rounds past the largest finite float
TooLarge(n) == 2 * Abs(n) >= 2 * MaxFin + Pow2(ExpAllOnes - 2)

\* magnitude bits of the float nearest to n >= 0, ties to even
Nearest(n) ==
    LET lo == CHOOSE g \in 0..MaxFinBits :
                 /\ Decode(g).v <= n
                 /\ g < MaxFinBits => Decode(g + 1).v > n
        hi == lo + 1
    IN  IF Decode(lo).v = n THEN lo
        ELSE IF hi > MaxFinBits THEN lo
        ELSE IF 2 * n < Decode(lo).v + Decode(hi).v THEN lo
        ELSE IF 2 * n > Decode(lo).v + Decode(hi).v THEN hi
        ELSE IF lo % 2 = 0 THEN lo ELSE hi

\* struct.pack('>f', f) then struct.unpack('>l', s): the float's bits as a
\* signed integer.  Defined for NaN, the infinities and finite values that
\* are not TooLarge.
floatToBits(f) ==
    IF IsNaN(f) THEN ExpAllOnes * Pow2(ManBits) + Pow2(ManBits - 1)
    ELSE IF IsInf(f) THEN
        (IF f.v = 1 THEN ExpAllOnes * Pow2(ManBits)
                    ELSE ExpAllOnes * Pow2(ManBits) - Pow2(MagBits))
    ELSE IF f.v < 0 THEN Nearest(-f.v) - Pow2(MagBits)
    ELSE Nearest(f.v)

\* struct.pack('>l', b) then struct.unpack('>f', s)
bitsToFloat(b) ==
    IF b < 0 THEN sNeg(Decode(b + Pow2(MagBits))) ELSE Decode(b)

\* b ^ mask for a mask with a single bit set, b in two's complement
Xor(b, mask) == IF (b \div mask) % 2 = 1 THEN b - mask ELSE b + mask

do_bitflip(a, pos) ==
    LET b == floatToBits(a)
        mask == Pow2(pos)
        c == Xor(b, mask)
    IN  bitsToFloat(c)

\* struct.pack('>f', a) raises OverflowError
PackOverflows(a) == IsFin(a) /\ TooLarge(a.v)

\* random.randrange(31): every bit but the sign
Positions == 0..(MagBits - 1)

----------------------------------------------------------------------------
(* Collocation table (self.coll).  Two rules with two nodes on [0,1], all  *)
(* entries multiplied by 12 so that they are integers (the model's dt is   *)
(* the program's dt divided by 12):                                        *)
(*   "radau_right": nodes 1/3, 1; the last node is the right end point     *)
(*   "radau_left" : nodes 0, 2/3; the right end point is no node           *)
(* Indices are the program's: nodes, delta_m, weights from 0; Qmat, QI, QE *)
(* with row and column 0 for the initial value.                            *)

\* self.coll.num_nodes
M == 2
Rules == {"radau_right", "radau_left"}

nodes(r) == IF r = "radau_right" THEN (0 :> 4 @@ 1 :> 12) ELSE (0 :> 0 @@ 1 :> 8)
delta_m(r) == IF r = "radau_right" THEN (0 :> 4 @@ 1 :> 8) ELSE (0 :> 0 @@ 1 :> 8)
weights(r) == IF r = "radau_right" THEN (0 :> 9 @@ 1 :> 3) ELSE (0 :> 3 @@ 1 :> 9)
right_is_node(r) == r = "radau_right"
Qmat(r) ==
    IF r = "radau_right"
    THEN (0 :> (0 :> 0 @@ 1 :> 0 @@ 2 :> 0) @@
          1 :> (0 :> 0 @@ 1 :> 5 @@ 2 :> -1) @@
          2 :> (0 :> 0 @@ 1 :> 9 @@ 2 :> 3))
    ELSE (0 :> (0 :> 0 @@ 1 :> 0 @@ 2 :> 0) @@
          1 :> (0 :> 0 @@ 1 :> 0 @@ 2 :> 0) @@
          2 :> (0 :> 0 @@ 1 :> 4 @@ 2 :> 4))

\* __get_Qd: QI[m, 1:m+1] = delta_m[0:m]
QI(r) == [mm \in 0..M |-> [j \in 0..M |->
            IF 1 <= j /\ j <= mm THEN delta_m(r)[j - 1] ELSE 0]]
\* __get_Qd: QE[m, 0:m] = delta_m[0:m]
QE(r) == [mm \in 0..M |-> [j \in 0..M |->
            IF j <= mm - 1 THEN delta_m(r)[j] ELSE 0]]

----------------------------------------------------------------------------
(* Problem collaborator (L.prob): a linear test problem                    *)
(*   u' = lam*u (implicit part) + gexp*t (explicit forcing), lam <= 0      *)

Lams == {-1}
Gexps == {0, 1}

\* P.eval_f(u, t)
eval_f(lm, g, uval, t) == [impl |-> vScale(lm, uval), expl |-> vConst(Fin(g * t))]

\* P.solve_system(rhs, factor, u0): solves u - factor*lam*u = rhs
solve_system(lm, rhs, factor, guess) == [i \in Idx |-> sDiv(rhs[i], 1 - factor * lm)]

----------------------------------------------------------------------------
(* State *)

VARIABLES
    \* the Level L
    u,          \* L.u[0..M]: the object each slot refers to
    heap,       \* the values of the StateVector objects
    uend,       \* L.uend: an object, or 0 for None
    f,          \* L.f[0..M]: records with fields impl and expl
    oldres,     \* L.oldres[0..M]
    tau,        \* L.tau: [some |-> FALSE] for None, else tau[0..M-1] in v
    dt,         \* L.dt
    time,       \* L.time
    unlocked,   \* L.status.unlocked
    updated,    \* L.status.updated
    \* configuration fixed at construction
    lam, gexp,  \* the problem's parameters
    rule,       \* the collocation rule
    \* the running call of update_nodes
    pc,         \* "idle", "sweep" (inside the node loop), "raised"
    flip,       \* the argument flip
    integral,   \* the local list integral[0..M-1]
    m,          \* the loop variable m of the node loop
    loop,       \* the local loop
    bitflipped, \* the local bitflipped
    \* return value of the last integrate() made by a caller
    me,
    \* observations of the running or last call, for stating properties
    lastop,     \* the operation called last
    calls,      \* number of sweeper calls made
    flipcalls,  \* number of calls update_nodes(flip=True) made
    entry,      \* u (values), f, oldres, updated as they were on entry
    nsolve,     \* solve_system calls per node in this call
    neval,      \* eval_f calls in this call
    nflips,     \* do_bitflip results stored in this call
    coin,       \* a coin flip succeeded in this call
    usolved,    \* per node, the last result of solve_system in this call
    firstres,   \* per node, the residual computed on the first attempt
    rhsfirst,   \* per node, the rhs built on the first attempt of this call
    rhslast,    \* per node, the rhs built on the last attempt of this call
    ufirst,     \* per node, the result of solve_system on the first attempt
    flipat      \* <<node, loop>> of the flip of this call, <<0, 0>> if none

\* the parallel-in-time controller and its Steps 1..NSteps
VARIABLES
    cpc,        \* "off" (no run), "run", "finished"
    cblock,     \* number of the running block
    cseed,      \* the value that seeds the predictor of the running block
    stage,      \* per Step: "PREDICT", "ITERATE", "DONE"
    phase,      \* per Step in ITERATE: the phase it is about to do
    iter,       \* per Step: status.iter
    cres,       \* per Step: finest-level residual
    cu0,        \* per Step: the buffer its finest u[0] refers to
    cuend,      \* per Step: the buffer its finest uend refers to
    cheap,      \* the values of the buffers
    chan,       \* per Step: the messages sent to it, oldest first
    stats,      \* the statistics log of the block: Steps with a ConvergenceFailure
    \* observations, for stating properties
    flows,      \* values received in this block: <<from, to>>
    lastmsg,    \* per Step: the value of the last message received
    conv        \* per Step: its end value when it became DONE

ctrlVars == <<cpc, cblock, cseed, stage, phase, iter, cres, cu0, cuend, cheap, chan,
              stats, flows, lastmsg, conv>>

levelVars == <<u, heap, uend, f, oldres, tau, dt, time, unlocked, updated>>
confVars == <<lam, gexp, rule>>
frameVars == <<pc, flip, integral, m, loop, bitflipped>>
sweepObs == <<rhsfirst, rhslast, ufirst, flipat>>
obsVars == <<lastop, calls, flipcalls, entry, nsolve, neval, nflips, coin, usolved, firstres,
            sweepObs>>
vars == <<levelVars, confVars, frameVars, me, obsVars, ctrlVars>>

\* StateVector objects: one per slot of u and one for uend
ObjIds == 1..(M + 2)
Live(uu, ue) == ({uu[i] : i \in 0..M} \cup {ue}) \ {0}
\* mutant: the result is written into the object of u[0]
NewObj_alias(uu, ue) == uu[0]
\* a new object to be stored in a slot: an identity no other slot refers to
\* (uu and ue are the references of the other slots)
NewObj(uu, ue) == CHOOSE o \in ObjIds :
    /\ o \notin Live(uu, ue)
    /\ \A p \in ObjIds : p \notin Live(uu, ue) => o <= p
\* objects no slot refers to are reclaimed
Collect(h, uu, ue) == [o \in ObjIds |-> IF o \in Live(uu, ue) THEN h[o] ELSE vZero]

\* the value of L.u[i]
uval(i) == heap[u[i]]
uvals == [i \in 0..M |-> heap[u[i]]]

----------------------------------------------------------------------------
(* imex_1st_order: the pure parts *)

\* me[-1] after the inner loop of integrate has run for j = 1..j
RECURSIVE integrate_node(_, _, _, _, _)
integrate_node(ff, d, r, row, j) ==
    IF j = 0 THEN vZero
    ELSE vAdd(integrate_node(ff, d, r, row, j - 1),
              vScale(d * Qmat(r)[row][j], vAdd(ff[j].impl, ff[j].expl)))

\* mutant: the rows of Qmat taken from 0
integrate_row0(ff, d, r) == [i \in 0..(M - 1) |-> integrate_node(ff, d, r, i, M)]
\* integrate(): the list me, indexed 0..M-1
integrate(ff, d, r) == [i \in 0..(M - 1) |-> integrate_node(ff, d, r, i + 1, M)]

\* L.dt*(QI[row,j]*L.f[j].impl + QE[row,j]*L.f[j].expl)
imex_term(ff, d, r, row, j) ==
    vScale(d, vAdd(vScale(QI(r)[row][j], ff[j].impl), vScale(QE(r)[row][j], ff[j].expl)))

\* integral[m] after the loop "for j in range(M+1)" has run for j = 0..j
RECURSIVE subtract_known(_, _, _, _, _, _)
subtract_known(x, ff, d, r, row, j) ==
    IF j < 0 THEN x
    ELSE vSub(subtract_known(x, ff, d, r, row, j - 1), imex_term(ff, d, r, row, j))

\* update_nodes, "gather all terms which are known already"
known_terms(ff, u0v, tt, d, r) ==
    LET qf == integrate(ff, d, r)
    IN  [i \in 0..(M - 1) |->
            LET a == subtract_known(qf[i], ff, d, r, i + 1, M)
                b == vAdd(a, u0v)
            IN  IF tt.some THEN vAdd(b, tt.v[i]) ELSE b]

\* mutant: the loop over the earlier nodes starts at node 1
RECURSIVE add_new_from1(_, _, _, _, _, _)
add_new_from1(x, ff, d, r, row, j) ==
    IF j < 1 THEN x
    ELSE vAdd(add_new_from1(x, ff, d, r, row, j - 1), imex_term(ff, d, r, row, j))
\* rhs after the loop "for j in range(m+1)" has run for j = 0..j
RECURSIVE add_new(_, _, _, _, _, _)
add_new(x, ff, d, r, row, j) ==
    IF j < 0 THEN x
    ELSE vAdd(add_new(x, ff, d, r, row, j - 1), imex_term(ff, d, r, row, j))

\* mutant: the loop over the earlier nodes runs up to the node itself
build_rhs_incl(integ, ff, d, r, mm) == add_new(integ[mm], ff, d, r, mm + 1, mm + 1)
\* update_nodes, "build rhs" for the loop variable mm (node mm+1)
build_rhs(integ, ff, d, r, mm) == add_new(integ[mm], ff, d, r, mm + 1, mm)

\* update_nodes, "compute the residual with the new values just computed"
residual(u0v, unew, ff, d, r, mm) ==
    LET res == vSub(vAdd(u0v, integrate_node(ff, d, r, mm + 1, M)), unew)
    IN  norm_inf(res)

\* the while loop runs its body again
while_cond(lp) == lp < 2

\* mutants: the gate without the argument flip, and without the note
flip_gate_unasked(fl, bf) == ~bf
flip_gate_uncapped(fl, bf) == fl
\* "if flip and not bitflipped"
flip_gate(fl, bf) == fl /\ ~bf

\* mutant: the first take is repeated also when the residual only equals
\* the old one
decide_ge(lp, newres, old) ==
    IF lp = 0 /\ ~sGt(old, newres) /\ ~IsNaN(newres) /\ ~IsNaN(old)
    THEN [loop |-> 1, oldres |-> old]
    ELSE [loop |-> 2, oldres |-> newres]

\* mutant: the first take is repeated unless newres <= oldres, so also
\* when the comparison involves a NaN
decide_unless_le(lp, newres, old) ==
    IF lp = 0 /\ (sGt(newres, old) \/ IsNaN(newres) \/ IsNaN(old))
    THEN [loop |-> 1, oldres |-> old]
    ELSE [loop |-> 2, oldres |-> newres]
\* mutant: a second take that is still worse is not recorded
decide_keep(lp, newres, old) ==
    IF lp = 0 /\ sGt(newres, old) THEN [loop |-> 1, oldres |-> old]
    ELSE IF lp = 1 /\ sGt(newres, old) THEN [loop |-> 2, oldres |-> old]
    ELSE [loop |-> 2, oldres |-> newres]
\* update_nodes, the if/elif/else on loop and newres: the new value of
\* loop and of L.oldres[m+1]
decide(lp, newres, old) ==
    IF lp = 0 /\ sGt(newres, old) THEN [loop |-> 1, oldres |-> old]
    ELSE IF lp = 1 /\ sGt(newres, old) THEN [loop |-> 2, oldres |-> newres]
    ELSE [loop |-> 2, oldres |-> newres]

\* mutant: no assertion
assert_skipped(unl) == TRUE
\* "assert L.status.unlocked" passes
assert_unlocked(unl) == unl

\* mutant: L.uend = src, the same object
dtype_u_alias(h, src, uu) == [ref |-> src, heap |-> h]
\* L.uend = P.dtype_u(src): a new object with the value of src; the result
\* is the object and the heap with it
dtype_u(h, src, uu) ==
    LET o == NewObj(uu, 0) IN [ref |-> o, heap |-> [h EXCEPT ![o] = h[src]]]

\* L.uend after the loop "for m in range(num_nodes)" has run for m = 0..i
RECURSIVE add_weights(_, _, _, _, _)
add_weights(x, ff, d, r, i) ==
    IF i < 0 THEN x
    ELSE vAdd(add_weights(x, ff, d, r, i - 1),
              vScale(d * weights(r)[i], vAdd(ff[i + 1].impl, ff[i + 1].expl)))

\* compute_end_point: the new L.uend and the heap; += acts on the object
\* L.uend refers to
compute_end_point(h, uu, ff, tt, d, r) ==
    IF right_is_node(r)
    THEN dtype_u(h, uu[M], uu)
    ELSE LET c == dtype_u(h, uu[0], uu)
             s == add_weights(c.heap[c.ref], ff, d, r, M - 1)
             e == IF tt.some THEN vAdd(s, tt.v[M - 1]) ELSE s
         IN  [ref |-> c.ref, heap |-> [c.heap EXCEPT ![c.ref] = e]]

----------------------------------------------------------------------------
(* Initial states: a Level after set-up.  The initial value is spread to   *)
(* all nodes and f evaluated there (the sweeper's predict); oldres is      *)
(* seeded with +Inf; a Level that was never given an initial value is      *)
(* still locked.                                                           *)

\* initial values: the zero vector and vectors with distinct unknowns, of
\* a magnitude that fits the narrow float format and of larger ones
InitVecs == {vZero} \cup
    {[i \in Idx |-> Fin((i - 1) * 8 * 16 ^ (n - 1))] : n \in 1..MaxInit}
NoTau == [some |-> FALSE, v |-> [i \in 0..(M - 1) |-> vZero]]
Taus == {NoTau, [some |-> TRUE, v |-> [i \in 0..(M - 1) |-> vConst(Fin(i + 1))]]}
NoEntry == [u |-> [i \in 0..M |-> vZero],
            f |-> [i \in 0..M |-> [impl |-> vZero, expl |-> vZero]],
            oldres |-> [i \in 0..M |-> PInf], updated |-> FALSE]

\* the times a Level starts at: without forcing (gexp = 0) the time does
\* not enter the computation; with forcing the Level is one of a later
\* time step, so that the forcing differs from zero at its first node too
Times(g) == IF g = 0 THEN {0} ELSE {4}

\* the Level after set-up at its time with initial value u0v
LevelInit(u0v, lm, g, r, tt, unl) ==
    /\ heap = [o \in ObjIds |-> IF o <= M + 1 THEN u0v ELSE vZero]
    /\ u = [i \in 0..M |-> i + 1]
    /\ uend = 0
    /\ lam = lm
    /\ gexp = g
    /\ rule = r
    /\ dt = 1
    /\ f = [i \in 0..M |->
              eval_f(lam, gexp, heap[1], IF i = 0 THEN time ELSE time + dt * nodes(rule)[i - 1])]
    /\ oldres = [i \in 0..M |-> PInf]
    /\ tau = tt
    /\ unlocked = unl
    /\ updated = FALSE
    /\ pc = "idle"
    /\ flip = FALSE
    /\ integral = [i \in 0..(M - 1) |-> vZero]
    /\ m = 0
    /\ loop = 0
    /\ bitflipped = FALSE
    /\ me = [i \in 0..(M - 1) |-> vZero]
    /\ lastop = "none"
    /\ calls = 0
    /\ flipcalls = 0
    /\ entry = NoEntry
    /\ nsolve = [i \in 1..M |-> 0]
    /\ neval = 0
    /\ nflips = 0
    /\ coin = FALSE
    /\ usolved = [i \in 1..M |-> vZero]
    /\ firstres = [i \in 1..M |-> PInf]
    /\ rhsfirst = [i \in 1..M |-> vZero]
    /\ rhslast = [i \in 1..M |-> vZero]
    /\ ufirst = [i \in 1..M |-> vZero]
    /\ flipat = <<0, 0>>

Steps == 1..NSteps
\* no controller is running
CtrlOff ==
    /\ cpc = "off"
    /\ cblock = 0
    /\ cseed = 0
    /\ stage = [i \in Steps |-> "PREDICT"]
    /\ phase = [i \in Steps |-> "SWEEP_FINE"]
    /\ iter = [i \in Steps |-> 0]
    /\ cres = [i \in Steps |-> 0]
    /\ cu0 = [i \in Steps |-> i]
    /\ cuend = [i \in Steps |-> NSteps + i]
    /\ cheap = [b \in 1..(2 * NSteps) |-> 0]
    /\ chan = [i \in Steps |-> << >>]
    /\ stats = {}
    /\ flows = {}
    /\ lastmsg = [i \in Steps |-> 0]
    /\ conv = [i \in Steps |-> 0]

Init ==
    /\ \E u0v \in InitVecs, lm \in Lams, g \in Gexps, r \in Rules,
          tt \in Taus, unl \in BOOLEAN :
          \E t0 \in Times(g) :
              /\ time = t0
              /\ LevelInit(u0v, lm, g, r, tt, unl)
    /\ CtrlOff

----------------------------------------------------------------------------
(* Operations *)

\* a caller calls update_nodes(flip): lines 83-109, up to the node loop.
\* The callers considered switch fault injection on in at most one sweep.
update_nodes_call(fl) ==
    /\ pc = "idle"
    /\ calls < MaxCalls
    /\ fl => flipcalls = 0
    /\ calls' = calls + 1
    /\ flipcalls' = flipcalls + (IF fl THEN 1 ELSE 0)
    /\ lastop' = "update_nodes"
    /\ flip' = fl
    /\ entry' = [u |-> uvals, f |-> f, oldres |-> oldres, updated |-> updated]
    /\ nsolve' = [i \in 1..M |-> 0]
    /\ neval' = 0
    /\ nflips' = 0
    /\ coin' = FALSE
    /\ usolved' = [i \in 1..M |-> vZero]
    /\ firstres' = [i \in 1..M |-> PInf]
    /\ rhsfirst' = [i \in 1..M |-> vZero]
    /\ rhslast' = [i \in 1..M |-> vZero]
    /\ ufirst' = [i \in 1..M |-> vZero]
    /\ flipat' = <<0, 0>>
    /\ IF assert_unlocked(unlocked)
       THEN /\ integral' = known_terms(f, uval(0), tau, dt, rule)
            /\ bitflipped' = FALSE
            /\ m' = 0
            /\ loop' = 0
            /\ pc' = "sweep"
       ELSE \* AssertionError
            /\ pc' = "raised"
            /\ UNCHANGED <<integral, bitflipped, m, loop>>
    /\ UNCHANGED <<levelVars, confVars, me>>
    /\ UNCHANGED ctrlVars

\* one pass through the body of the while loop for node m+1, lines 115-172,
\* with the random choices doit, index and pos it makes
update_nodes_attempt ==
    /\ pc = "sweep"
    /\ m < M
    /\ LET row == m + 1
           rhs == build_rhs(integral, f, dt, rule, m)
           unew == solve_system(lam, rhs, dt * QI(rule)[row][row], uval(row))
           o == NewObj([u EXCEPT ![row] = 0], uend)
           u1 == [u EXCEPT ![row] = o]
           h1 == Collect([heap EXCEPT ![o] = unew], u1, uend)
           fnew == eval_f(lam, gexp, unew, time + dt * nodes(rule)[m])
       IN  /\ u' = u1
           /\ heap' = h1
           /\ nsolve' = [nsolve EXCEPT ![row] = @ + 1]
           /\ neval' = neval + 1
           /\ usolved' = [usolved EXCEPT ![row] = unew]
           /\ rhslast' = [rhslast EXCEPT ![row] = rhs]
           /\ rhsfirst' = IF loop = 0 THEN [rhsfirst EXCEPT ![row] = rhs] ELSE rhsfirst
           /\ ufirst' = IF loop = 0 THEN [ufirst EXCEPT ![row] = unew] ELSE ufirst
           /\ \E doit \in (IF flip_gate(flip, bitflipped) THEN BOOLEAN ELSE {FALSE}) :
              \E index \in (IF doit THEN Idx ELSE {1}) :
              \E pos \in (IF doit THEN Positions ELSE {0}) :
                 /\ coin' = (coin \/ doit)
                 /\ flipat' = IF doit THEN <<row, loop>> ELSE flipat
                 /\ IF doit /\ PackOverflows(fnew.impl[index])
                    THEN \* OverflowError out of do_bitflip
                         /\ f' = [f EXCEPT ![row] = fnew]
                         /\ pc' = "raised"
                         /\ UNCHANGED <<oldres, m, loop, bitflipped, nflips, firstres>>
                    ELSE LET fhit == IF doit
                                     THEN [fnew EXCEPT !.impl[index] = do_bitflip(@, pos)]
                                     ELSE fnew
                             f1 == [f EXCEPT ![row] = fhit]
                             newres == residual(h1[u1[0]], unew, f1, dt, rule, m)
                             d == decide(loop, newres, oldres[row])
                         IN  /\ f' = f1
                             /\ bitflipped' = (bitflipped \/ doit)
                             /\ nflips' = nflips + (IF doit THEN 1 ELSE 0)
                             /\ firstres' = IF loop = 0
                                            THEN [firstres EXCEPT ![row] = newres]
                                            ELSE firstres
                             /\ oldres' = [oldres EXCEPT ![row] = d.oldres]
                             /\ IF while_cond(d.loop)
                                THEN m' = m /\ loop' = d.loop
                                ELSE m' = m + 1 /\ loop' = 0
                             /\ pc' = pc
    /\ UNCHANGED <<uend, tau, dt, time, unlocked, updated, confVars,
                   flip, integral, me, lastop, calls, flipcalls, entry>>
    /\ UNCHANGED ctrlVars

\* the node loop is over: lines 176-179
update_nodes_return ==
    /\ pc = "sweep"
    /\ m = M
    /\ updated' = TRUE
    /\ pc' = "idle"
    /\ UNCHANGED <<u, heap, uend, f, oldres, tau, dt, time, unlocked, confVars,
                   flip, integral, m, loop, bitflipped, me, obsVars>>
    /\ UNCHANGED ctrlVars

\* a caller calls integrate()
integrate_call ==
    /\ pc = "idle"
    /\ unlocked
    /\ calls < MaxCalls
    /\ calls' = calls + 1
    /\ me' = integrate(f, dt, rule)
    /\ lastop' = "integrate"
    /\ entry' = [u |-> uvals, f |-> f, oldres |-> oldres, updated |-> updated]
    /\ UNCHANGED <<levelVars, confVars, frameVars,
                   flipcalls, nsolve, neval, nflips, coin, usolved, firstres,
                   sweepObs>>
    /\ UNCHANGED ctrlVars

\* a caller calls compute_end_point()
compute_end_point_call ==
    /\ pc = "idle"
    /\ unlocked
    /\ calls < MaxCalls
    /\ calls' = calls + 1
    /\ entry' = [u |-> uvals, f |-> f, oldres |-> oldres, updated |-> updated]
    /\ LET c == compute_end_point(heap, u, f, tau, dt, rule)
       IN  /\ uend' = c.ref
           /\ heap' = Collect(c.heap, u, c.ref)
    /\ lastop' = "compute_end_point"
    /\ UNCHANGED <<u, f, oldres, tau, dt, time, unlocked, updated, confVars, frameVars,
                   me, flipcalls, nsolve, neval, nflips, coin, usolved, firstres,
                   sweepObs>>
    /\ UNCHANGED ctrlVars

Next ==
    \/ \E fl \in BOOLEAN : update_nodes_call(fl)
    \/ update_nodes_attempt
    \/ update_nodes_return
    \/ integrate_call
    \/ compute_end_point_call

Spec == Init /\ [][Next]_vars

----------------------------------------------------------------------------
(* Properties of the sweeper *)

\* the last call made was update_nodes and it has returned normally
Returned == pc = "idle" /\ lastop = "update_nodes"
\* the Level's u (values), f, oldres and status.updated are as on entry
SameAsEntry ==
    /\ uvals = entry.u
    /\ f = entry.f
    /\ oldres = entry.oldres
    /\ updated = entry.updated
\* the RHS the problem evaluates at node i (1..M) for the current u[i]
rhs_at(i) == eval_f(lam, gexp, uval(i), time + dt * nodes(rule)[i - 1])
\* the scalar elements of f[1..M].impl that are not the evaluated ones
Corrupted == {p \in (1..M) \X Idx : f[p[1]].impl[p[2]] # rhs_at(p[1]).impl[p[2]]}

\* C1: update_nodes on a Level that is not unlocked fails before doing any
\* work: no solve, no RHS evaluation, and u, f, oldres and status.updated
\* are as they were on entry.
C1_LockedCallFails ==
    (lastop = "update_nodes" /\ ~unlocked) =>
        /\ pc = "raised"
        /\ neval = 0
        /\ \A i \in 1..M : nsolve[i] = 0
        /\ SameAsEntry
C1_Witness == lastop = "update_nodes" /\ ~unlocked /\ pc = "raised"

\* C2: in a call of update_nodes no node is solved more than twice, and when
\* the call returns every node has been solved exactly once if the residual
\* of its first attempt did not exceed oldres[m] as it was on entry, and
\* exactly twice if it did; with and without fault injection.
C2_SolvesPerNode ==
    /\ \A i \in 1..M : nsolve[i] <= 2
    /\ Returned =>
          \A i \in 1..M :
             nsolve[i] = IF sGt(firstres[i], entry.oldres[i]) THEN 2 ELSE 1
C2_Witness ==
    /\ Returned
    /\ \E i, j \in 1..M : nsolve[i] = 2 /\ nsolve[j] = 1

\* C3 as claimed: whenever update_nodes has returned, f[m] is the RHS
\* evaluated at the current u[m] for every node m in 1..M, fault injection
\* enabled or not.
C3_Claimed == Returned => \A i \in 1..M : f[i] = rhs_at(i)

\* C3 amended: whenever update_nodes has returned, f[m].expl is the
\* evaluated one for every node, and so is f[m].impl when the call was made
\* without fault injection (whatever earlier sweeps did); after a call with
\* fault injection at most one scalar element of one f[m].impl differs.
C3_ConsistentButFlip ==
    Returned =>
        /\ \A i \in 1..M : f[i].expl = rhs_at(i).expl
        /\ ~flip => Corrupted = {}
        /\ Cardinality(Corrupted) <= 1
C3_Witness == Returned /\ ~flip /\ calls = 2 /\ flipcalls = 1 /\ entry.f[M] # f[M]

\* C4: at most one element is flipped per call of update_nodes; a call that
\* returns has flipped exactly one element if a coin flip succeeded in it
\* and none otherwise; without fault injection no coin is flipped and no
\* element is flipped; flips hit f[m].impl only: u[m] is what solve_system
\* returned and f[m].expl is the evaluated one.
C4_OneFlipPerSweep ==
    /\ nflips <= 1
    /\ ~flip => (nflips = 0 /\ ~coin)
    /\ Returned => nflips = (IF coin THEN 1 ELSE 0)
    /\ Returned => Cardinality(Corrupted) <= nflips
    /\ (lastop = "update_nodes" /\ unlocked) =>
          \A i \in 1..M : nsolve[i] > 0 =>
              /\ uval(i) = usolved[i]
              /\ f[i].expl = rhs_at(i).expl
C4_Witness == Returned /\ flip /\ coin /\ nflips = 1 /\ nsolve[M] = 2

\* the quadrature sum of integrate() for row i, summed from the last node
RECURSIVE QuadDown(_, _)
QuadDown(i, j) ==
    IF j > M THEN vZero
    ELSE vAdd(vScale(dt * Qmat(rule)[i][j], vAdd(f[j].impl, f[j].expl)), QuadDown(i, j + 1))
\* the end point formula, summed from the last node
RECURSIVE WeightDown(_)
WeightDown(j) ==
    IF j > M THEN vZero
    ELSE vAdd(vScale(dt * weights(rule)[j - 1], vAdd(f[j].impl, f[j].expl)), WeightDown(j + 1))

\* C5: after compute_end_point, uend is an object of its own; its value is
\* that of u[M] when right_is_node is set, and u[0] + dt * sum of
\* weights[m]*(f.impl + f.expl) over the M nodes, plus tau's last entry if
\* tau is present, when it is not set; u, f, oldres and the status flags are
\* as before the call; and afterwards no other operation changes uend.
C5_State ==
    lastop = "compute_end_point" =>
        /\ uend # 0
        /\ \A i \in 0..M : u[i] # uend
        /\ right_is_node(rule) => heap[uend] = uval(M)
        /\ ~right_is_node(rule) =>
              heap[uend] = vAdd(vAdd(uval(0), WeightDown(1)),
                                IF tau.some THEN tau.v[M - 1] ELSE vZero)
        /\ SameAsEntry
        /\ unlocked
C5_Step == (uend # 0 /\ lastop' # "compute_end_point") => (uend' = uend /\ heap'[uend] = heap[uend])
C5_EndPoint == [](C5_State) /\ [][C5_Step]_vars
C5_Witness ==
    /\ lastop = "compute_end_point"
    /\ updated
    /\ ~right_is_node(rule)
    /\ tau.some
    /\ heap[uend] # uval(M)
    /\ heap[uend] # uval(0)
\* reached as well: the copy of u[M], and a sweep after it that changed u[M]
C5_ReachedCopy ==
    /\ lastop = "compute_end_point"
    /\ updated
    /\ right_is_node(rule)
    /\ uval(M) # uval(0)
C5_ReachedLater ==
    /\ lastop = "update_nodes"
    /\ uend # 0
    /\ right_is_node(rule)
    /\ heap[uend] # uval(M)

\* C6: integrate() returns M values, the m-th being the sum over the nodes j
\* of dt*Qmat[m,j]*(f[j].impl + f[j].expl); they are all zero when every
\* f[j].impl and f[j].expl is zero; the call changes nothing of the Level,
\* and a second call with the same f returns the same values.
C6_State ==
    lastop = "integrate" =>
        /\ DOMAIN me = 0..(M - 1)
        /\ \A i \in 0..(M - 1) : me[i] = QuadDown(i + 1, 1)
        /\ (\A j \in 1..M : f[j].impl = vZero /\ f[j].expl = vZero) =>
              \A i \in 0..(M - 1) : me[i] = vZero
        /\ SameAsEntry
C6_Step ==
    lastop' = "integrate" /\ calls' # calls =>
        /\ UNCHANGED levelVars
        /\ lastop = "integrate" => me' = me
C6_Integrate == [](C6_State) /\ [][C6_Step]_vars
C6_Witness ==
    /\ lastop = "integrate"
    /\ calls = 2
    /\ updated
    /\ \E i \in 0..(M - 1) : me[i] # vZero
\* reached as well: the constant-zero RHS
C6_ReachedZero ==
    /\ lastop = "integrate"
    /\ \A j \in 1..M : f[j].impl = vZero /\ f[j].expl = vZero

----------------------------------------------------------------------------
(* The parallel-in-time controller (PFASST), after its design document:
   one worker per Step, message passing from each Step to the next.
   The phases SWEEP_FINE, RESTRICT, SWEEP_COARSE and PROLONG of an
   iteration touch only the Step's own Levels and are strictly sequential,
   so they are taken as one step, v_cycle.  A value is named by the block,
   the Step and the iteration that produced it. *)

restol == 0
\* a finest-level residual either meets the tolerance or does not
Residuals == {restol, restol + 1}
NoVal == <<0, 0, -1>>
\* the global initial value
U0Val == <<0, 0, 0>>
\* the value Step i produces in its k-th V-cycle of block b (k = 0: predictor)
Produced(b, i, k) == <<b + 1, i, k>>
producer(val) == val[2]

\* the Step a Step sends its end value to
send_target_back(i) == i - 1
send_target(i) == i + 1

\* the buffer that holds a received value: the Step's own (a copy)
recv_buffer_alias(i, msg) == msg.src
recv_buffer(i, msg) == i

\* the convergence test
is_done_late(r, it) == r <= restol \/ it = MaxIter + 1
is_done(r, it) == r <= restol \/ it = MaxIter

\* the state of the Steps at the start of a block
BlockStart ==
    /\ stage' = [i \in Steps |-> "PREDICT"]
    /\ phase' = [i \in Steps |-> "SWEEP_FINE"]
    /\ iter' = [i \in Steps |-> 0]
    /\ cres' = [i \in Steps |-> 0]
    /\ chan' = [i \in Steps |-> << >>]
    /\ stats' = {}
    /\ flows' = {}
    /\ lastmsg' = [i \in Steps |-> NoVal]
    /\ conv' = [i \in Steps |-> NoVal]

\* run(config, u0, t0, dt, Tend) has set up the Steps of the first block
CInit ==
    /\ time = 0
    /\ LevelInit(vZero, -1, 0, "radau_right", NoTau, FALSE)
    /\ cpc = "run"
    /\ cblock = 0
    /\ cseed = U0Val
    /\ stage = [i \in Steps |-> "PREDICT"]
    /\ phase = [i \in Steps |-> "SWEEP_FINE"]
    /\ iter = [i \in Steps |-> 0]
    /\ cres = [i \in Steps |-> 0]
    /\ cu0 = [i \in Steps |-> i]
    /\ cuend = [i \in Steps |-> NSteps + i]
    /\ cheap = [b \in 1..(2 * NSteps) |-> NoVal]
    /\ chan = [i \in Steps |-> << >>]
    /\ stats = {}
    /\ flows = {}
    /\ lastmsg = [i \in Steps |-> NoVal]
    /\ conv = [i \in Steps |-> NoVal]

sweeperVars == <<levelVars, confVars, frameVars, me, obsVars>>

\* predictor of Step i: seed the finest level with a copy of the block's
\* seed, then a burst of sweeps
predict(i) ==
    /\ cpc = "run"
    /\ stage[i] = "PREDICT"
    /\ cheap' = [cheap EXCEPT ![cu0[i]] = cseed,
                             ![cuend[i]] = Produced(cblock, i, 0)]
    /\ stage' = [stage EXCEPT ![i] = "ITERATE"]
    /\ phase' = [phase EXCEPT ![i] = "SWEEP_FINE"]
    /\ UNCHANGED <<cpc, cblock, cseed, iter, cres, cu0, cuend, chan, stats,
                   flows, lastmsg, conv>>
    /\ UNCHANGED sweeperVars

\* one multi-level V-cycle of Step i: fine sweep, restriction, coarse sweep,
\* prolongation; it leaves a new end value and a new finest-level residual
v_cycle(i) ==
    /\ cpc = "run"
    /\ stage[i] = "ITERATE"
    /\ phase[i] = "SWEEP_FINE"
    /\ \E r \in Residuals : cres' = [cres EXCEPT ![i] = r]
    /\ cheap' = [cheap EXCEPT ![cuend[i]] = Produced(cblock, i, iter[i] + 1)]
    /\ phase' = [phase EXCEPT ![i] = "COMMUNICATE"]
    /\ UNCHANGED <<cpc, cblock, cseed, stage, iter, cu0, cuend, chan, stats,
                   flows, lastmsg, conv>>
    /\ UNCHANGED sweeperVars

\* communication, first half: Step i sends a copy of its end value forward
send(i) ==
    /\ cpc = "run"
    /\ stage[i] = "ITERATE"
    /\ phase[i] = "COMMUNICATE"
    /\ LET to == send_target(i)
       IN  chan' = IF to \in Steps
                   THEN [chan EXCEPT ![to] = Append(@, [from |-> i,
                                                        val |-> cheap[cuend[i]],
                                                        src |-> cuend[i]])]
                   ELSE chan
    /\ phase' = [phase EXCEPT ![i] = "RECEIVE"]
    /\ UNCHANGED <<cpc, cblock, cseed, stage, iter, cres, cu0, cuend, cheap,
                   stats, flows, lastmsg, conv>>
    /\ UNCHANGED sweeperVars

\* communication, second half: Step i waits for the value of its
\* predecessor and takes it as its initial value.  The first Step has no
\* predecessor, and a predecessor that is done sends nothing more.
receive(i) ==
    /\ cpc = "run"
    /\ stage[i] = "ITERATE"
    /\ phase[i] = "RECEIVE"
    /\ IF chan[i] # << >>
       THEN LET msg == Head(chan[i])
                b == recv_buffer(i, msg)
            IN  /\ cu0' = [cu0 EXCEPT ![i] = b]
                /\ cheap' = [cheap EXCEPT ![b] = msg.val]
                /\ chan' = [chan EXCEPT ![i] = Tail(@)]
                /\ flows' = flows \cup {<<msg.from, i>>}
                /\ lastmsg' = [lastmsg EXCEPT ![i] = msg.val]
       ELSE /\ IF i = 1 THEN TRUE ELSE stage[i - 1] = "DONE"
            /\ UNCHANGED <<cu0, cheap, chan, flows, lastmsg>>
    /\ phase' = [phase EXCEPT ![i] = "CHECK_CONVERGENCE"]
    /\ UNCHANGED <<cpc, cblock, cseed, stage, iter, cres, cuend, stats, conv>>
    /\ UNCHANGED sweeperVars

\* convergence check of Step i; exhausting maxiter is logged
check_convergence(i) ==
    /\ cpc = "run"
    /\ stage[i] = "ITERATE"
    /\ phase[i] = "CHECK_CONVERGENCE"
    /\ iter' = [iter EXCEPT ![i] = @ + 1]
    /\ IF is_done(cres[i], iter'[i])
       THEN /\ stage' = [stage EXCEPT ![i] = "DONE"]
            /\ conv' = [conv EXCEPT ![i] = cheap[cuend[i]]]
            /\ stats' = IF cres[i] <= restol THEN stats ELSE stats \cup {i}
            /\ phase' = phase
       ELSE /\ phase' = [phase EXCEPT ![i] = "SWEEP_FINE"]
            /\ UNCHANGED <<stage, conv, stats>>
    /\ UNCHANGED <<cpc, cblock, cseed, cres, cu0, cuend, cheap, chan, flows,
                   lastmsg>>
    /\ UNCHANGED sweeperVars

all_done == \A i \in Steps : stage[i] = "DONE"

\* the barrier at the end of a block, with more time to cover: the end
\* value of the last Step seeds the next block
next_block ==
    /\ cpc = "run"
    /\ all_done
    /\ cblock + 1 < NBlocks
    /\ cblock' = cblock + 1
    /\ cseed' = cheap[cuend[NSteps]]
    /\ BlockStart
    /\ UNCHANGED <<cpc, cu0, cuend, cheap>>
    /\ UNCHANGED sweeperVars

\* the barrier at the end of the last block: Tend is reached
finish ==
    /\ cpc = "run"
    /\ all_done
    /\ cblock + 1 >= NBlocks
    /\ cpc' = "finished"
    /\ UNCHANGED <<cblock, cseed, stage, phase, iter, cres, cu0, cuend, cheap,
                   chan, stats, flows, lastmsg, conv>>
    /\ UNCHANGED sweeperVars

StepNext(i) ==
    \/ predict(i)
    \/ v_cycle(i)
    \/ send(i)
    \/ receive(i)
    \/ check_convergence(i)

CNext ==
    \/ \E i \in Steps : predict(i)
    \/ \E i \in Steps : v_cycle(i)
    \/ \E i \in Steps : send(i)
    \/ \E i \in Steps : receive(i)
    \/ \E i \in Steps : check_convergence(i)
    \/ next_block
    \/ finish

SpecCtrl == CInit /\ [][CNext]_vars

\* the run does not stop while a worker or the barrier can take a step
CFair == WF_vars(CNext)
SpecCtrlFair == CInit /\ [][CNext]_vars /\ CFair

----------------------------------------------------------------------------
(* Properties of the controller *)

\* what belongs to Step i: its status, its buffers and their values
own(i) == <<stage[i], phase[i], iter[i], cres[i], cu0[i], cuend[i],
            cheap[cu0[i]], cheap[cuend[i]], lastmsg[i], conv[i]>>

\* C7: data moves only forward in time: every message for Step j comes from
\* Step j-1, the initial value of Step j holds the block's seed or a value
\* produced by Step j-1, and a step of Step i changes nothing of another
\* Step but appends to the queue of Step i+1.
C7_State ==
    cpc = "run" =>
        /\ \A j \in Steps : \A n \in 1..Len(chan[j]) :
              /\ chan[j][n].from = j - 1
              /\ producer(chan[j][n].val) = j - 1
        /\ \A p \in flows : p[2] = p[1] + 1
        /\ \A j \in Steps : stage[j] # "PREDICT" =>
              /\ cheap[cu0[j]] = cseed \/ producer(cheap[cu0[j]]) = j - 1
              /\ producer(cheap[cuend[j]]) = j
C7_Step ==
    \A i \in Steps : StepNext(i) =>
        /\ \A j \in Steps \ {i} : own(j)' = own(j)
        /\ \A j \in Steps \ {i, i + 1} : chan'[j] = chan[j]
        /\ i + 1 \in Steps =>
              \/ chan'[i + 1] = chan[i + 1]
              \/ /\ Len(chan'[i + 1]) = Len(chan[i + 1]) + 1
                 /\ SubSeq(chan'[i + 1], 1, Len(chan[i + 1])) = chan[i + 1]
C7_Causality == [](C7_State) /\ [][C7_Step]_vars
C7_Witness ==
    /\ cblock >= 1
    /\ <<1, 2>> \in flows
    /\ lastmsg[2] = Produced(cblock, 1, 2)
    /\ cheap[cu0[2]] = Produced(cblock, 1, 2)
    /\ stage[1] = "DONE"
    /\ stage[2] = "ITERATE"

\* C8: a Step becomes done exactly when its residual is <= restol or its
\* iteration counter equals maxiter; the counter never exceeds maxiter;
\* exhausting maxiter is logged and the run goes on; every Step of a block
\* reaches DONE and the run ends.
C8_State ==
    \A i \in Steps :
        /\ iter[i] <= MaxIter
        /\ stage[i] = "DONE" => cres[i] <= restol \/ iter[i] = MaxIter
        /\ stage[i] = "ITERATE" => iter[i] < MaxIter
        /\ stage[i] = "DONE" /\ cres[i] > restol => i \in stats
        /\ i \in stats => stage[i] = "DONE" /\ iter[i] = MaxIter
C8_Step ==
    \A i \in Steps : check_convergence(i) =>
        /\ iter'[i] = iter[i] + 1
        /\ stage'[i] = "DONE" <=> (cres[i] <= restol \/ iter'[i] = MaxIter)
        /\ cpc' = "run"
\* a block ends, and the run ends, only with every Step of the block done
C8_Barrier ==
    cblock' # cblock \/ cpc' # cpc =>
        /\ all_done
        /\ cpc' = "finished" <=> cblock + 1 >= NBlocks
C8_Terminates ==
    /\ [](C8_State)
    /\ [][C8_Step /\ C8_Barrier]_vars
    /\ \A i \in Steps : cpc = "run" ~> stage[i] = "DONE"
    /\ <>[](cpc = "finished")
C8_Witness ==
    /\ cpc = "finished"
    /\ cblock = NBlocks - 1
    /\ \A i \in Steps : i \in stats /\ iter[i] = MaxIter /\ cres[i] > restol

\* C9: once Step i is done and Step i+1 has received all that Step i sent,
\* the initial value of Step i+1 equals the end value Step i converged to,
\* in a buffer of its own; after the predictor the initial value of a Step
\* is what it received last, whatever the sender does to its buffers.
C9_Pipeline ==
    /\ \A i \in Steps : cu0[i] # cuend[i]
    /\ \A i \in Steps : \A j \in Steps \ {i} : cu0[i] \notin {cu0[j], cuend[j]}
    /\ \A i \in Steps : stage[i] # "PREDICT" /\ lastmsg[i] # NoVal =>
          cheap[cu0[i]] = lastmsg[i]
    /\ \A i \in Steps : i + 1 \in Steps /\ stage[i] = "DONE"
                        /\ chan[i + 1] = << >> /\ stage[i + 1] # "PREDICT" =>
          /\ conv[i] = cheap[cuend[i]]
          /\ cheap[cu0[i + 1]] = conv[i]
C9_Witness ==
    /\ cblock >= 1
    /\ stage[1] = "DONE" /\ iter[1] = MaxIter
    /\ chan[2] = << >>
    /\ stage[2] = "ITERATE"
    /\ cheap[cu0[2]] = Produced(cblock, 1, MaxIter)
    /\ conv[1] = Produced(cblock, 1, MaxIter)

----------------------------------------------------------------------------
\* C10: a NaN in a node's state is surfaced as a fatal error: update_nodes
\* never returns normally with a NaN in u, f or oldres of a node.
C10_Claimed ==
    Returned =>
        \A i \in 1..M :
            /\ ~IsNaN(oldres[i])
            /\ \A k \in Idx : ~IsNaN(uval(i)[k]) /\ ~IsNaN(f[i].impl[k])

----------------------------------------------------------------------------
(* Properties of the node loop *)

\* the sum of the vectors terms[j] over the indices j in S
RECURSIVE SumOver(_, _)
SumOver(terms, S) ==
    IF S = {} THEN vZero
    ELSE LET j == CHOOSE k \in S : \A l \in S : l <= k
         IN  vAdd(SumOver(terms, S \ {j}), terms[j])
\* dt*QI[n,j]*ff[j].impl + dt*QE[n,j]*ff[j].expl, for every j
SplitTerms(ff, n) ==
    [j \in 0..M |-> vAdd(vScale(dt * QI(rule)[n][j], ff[j].impl),
                         vScale(dt * QE(rule)[n][j], ff[j].expl))]
\* dt*Qmat[n,j]*(ff[j].impl + ff[j].expl), for every j
QuadTerms(ff, n) ==
    [j \in 0..M |-> vScale(dt * Qmat(rule)[n][j], vAdd(ff[j].impl, ff[j].expl))]
\* the value prepared for node n before the node loop, from the f on entry
Prepared(n) ==
    LET a == vSub(SumOver(QuadTerms(entry.f, n), 1..M),
                  SumOver(SplitTerms(entry.f, n), 0..M))
        b == vAdd(a, entry.u[0])
    IN  IF tau.some THEN vAdd(b, tau.v[n - 1]) ELSE b
\* update_nodes is running its node loop or has returned
InSweep == lastop = "update_nodes" /\ pc \in {"sweep", "idle"}
\* f as it was when the first attempt at node n built its rhs
f_before(n) == [f EXCEPT ![n] = entry.f[n]]

\* C11 as claimed: the rhs of node n is integral[n-1] plus the split terms
\* of the nodes j = 1..n (here for a node attempted once, whose f[n] was the
\* one on entry when the rhs was built).
C11_Claimed ==
    InSweep =>
        \A n \in 1..M : nsolve[n] = 1 =>
            rhslast[n] = vAdd(integral[n - 1], SumOver(SplitTerms(f_before(n), n), 1..n))

\* C11 (amended): the rhs handed to the solve for node n is integral[n-1]
\* plus the split terms of the nodes j = 0..n-1, on every attempt, where
\* integral[n-1] is the quadrature of the f on entry, minus its split
\* terms for j = 0..M, plus u[0], plus tau[n-1] if present.
C11_RhsOfNode ==
    InSweep =>
        /\ \A n \in 1..M : integral[n - 1] = Prepared(n)
        /\ \A n \in 1..M : nsolve[n] >= 1 =>
              /\ rhslast[n] = vAdd(integral[n - 1], SumOver(SplitTerms(f, n), 0..(n - 1)))
              /\ rhsfirst[n] = vAdd(integral[n - 1], SumOver(SplitTerms(f, n), 0..(n - 1)))
C11_Witness ==
    /\ Returned
    /\ calls = 2
    /\ entry.updated
    /\ tau.some
    /\ SplitTerms(f, M)[0] # vZero
    /\ SplitTerms(entry.f, M)[M] # vZero
    /\ \E n \in 1..M : nsolve[n] = 2

\* f as it was when the last attempt at node n computed its residual: the
\* nodes after n still held the values they had on entry
f_at(n) == [j \in 0..M |-> IF j <= n THEN f[j] ELSE entry.f[j]]
\* the residual of node n for the values of its last attempt
ResidualOf(n) ==
    norm_inf(vSub(vAdd(uval(0), SumOver(QuadTerms(f_at(n), n), 1..M)), uval(n)))

\* C12: when update_nodes returns, oldres[n] of every node is the residual
\* of the last attempt made at node n in that sweep, also when it is larger
\* than oldres[n] was on entry, and oldres[0] is never written.
C12_State ==
    /\ oldres[0] = PInf
    /\ Returned => \A n \in 1..M : oldres[n] = ResidualOf(n)
    /\ InSweep => \A n \in 1..M :
          /\ nsolve[n] = 0 => oldres[n] = entry.oldres[n]
          /\ nsolve[n] = 1 /\ n = m + 1 => oldres[n] = entry.oldres[n]
C12_Step == oldres'[0] = oldres[0]
C12_AcceptAnyway == [](C12_State) /\ [][C12_Step]_vars
C12_Witness ==
    /\ Returned
    /\ \E n \in 1..M :
          /\ nsolve[n] = 2
          /\ IsFin(entry.oldres[n])
          /\ sGt(oldres[n], entry.oldres[n])
          /\ oldres[n] = ResidualOf(n)
\* reached as well: the same without fault injection in any call
C12_ReachedNoFlip ==
    /\ Returned /\ flipcalls = 0
    /\ \E n \in 1..M : nsolve[n] = 2 /\ sGt(oldres[n], entry.oldres[n])

\* C13: an update_nodes call that returns normally leaves status.updated
\* and status.unlocked true, and no step of update_nodes changes u[0], f[0],
\* oldres[0], uend, tau, dt, time or status.unlocked.
C13_State ==
    Returned =>
        /\ updated
        /\ unlocked
        /\ uval(0) = entry.u[0]
        /\ f[0] = entry.f[0]
C13_Step ==
    lastop' = "update_nodes" =>
        /\ heap'[u'[0]] = heap[u[0]]
        /\ f'[0] = f[0]
        /\ oldres'[0] = oldres[0]
        /\ uend' = uend
        /\ uend # 0 => heap'[uend'] = heap[uend]
        /\ <<tau, dt, time, unlocked>>' = <<tau, dt, time, unlocked>>
        /\ lastop = "update_nodes" /\ updated => updated'
C13_SweepFrame == [](C13_State) /\ [][C13_Step]_vars
C13_Witness ==
    /\ Returned
    /\ ~entry.updated
    /\ uend # 0
    /\ tau.some
    /\ time # 0
    /\ \A n \in 1..M : uval(n) # entry.u[n] /\ f[n] # entry.f[n] /\ oldres[n] # entry.oldres[n]

\* oldres[1..M] all held +infinity when the call was made
SeededOnEntry == \A n \in 1..M : entry.oldres[n] = PInf

\* C14: a sweep on a Level whose oldres[1..M] are all +infinity never
\* retries: one solve per node, M in all, with fault injection too, and
\* the element a flip corrupted is still corrupted when the sweep returns.
C14_FirstSweepNoRetry ==
    (InSweep /\ SeededOnEntry) =>
        /\ \A n \in 1..M : nsolve[n] <= 1
        /\ loop = 0
        /\ Returned =>
              /\ \A n \in 1..M : nsolve[n] = 1
              /\ neval = M
              /\ nflips = 1 =>
                    /\ flipat[1] \in 1..M /\ flipat[2] = 0
                    /\ Cardinality(Corrupted) = 1
                    /\ \E k \in Idx : <<flipat[1], k>> \in Corrupted
C14_Witness ==
    /\ Returned
    /\ SeededOnEntry
    /\ flip /\ nflips = 1
    /\ flipat[1] = 1
    /\ \E n \in 1..M : IsNaN(oldres[n])
    /\ \A n \in 1..M : nsolve[n] = 1
\* reached as well: a seeded sweep without fault injection
C14_ReachedPlain ==
    Returned /\ SeededOnEntry /\ ~flip /\ \E n \in 1..M : IsFin(oldres[n]) /\ oldres[n] # Fin(0)

\* C15: a retry repeats the same solve: the rhs of the second attempt at a
\* node is the rhs of the first, the solve gives the same u, f of the node
\* is evaluated again from it, and a flip made on the first attempt is gone.
C15_RetrySameSolve ==
    InSweep =>
        \A n \in 1..M : nsolve[n] = 2 =>
            /\ rhslast[n] = rhsfirst[n]
            /\ usolved[n] = ufirst[n]
            /\ uval(n) = usolved[n]
            /\ f[n].expl = rhs_at(n).expl
            /\ flipat # <<n, 1>> => f[n].impl = rhs_at(n).impl
C15_Witness ==
    /\ Returned
    /\ nflips = 1
    /\ \E n \in 1..M :
          /\ nsolve[n] = 2
          /\ flipat = <<n, 0>>
          /\ rhsfirst[n] # vZero
          /\ f[n] # entry.f[n]
          /\ f[n] = rhs_at(n)
\* reached as well: a flip made on the second attempt, which stays
C15_ReachedLateFlip ==
    Returned /\ \E n \in 1..M : nsolve[n] = 2 /\ flipat = <<n, 1>> /\ f[n].impl # rhs_at(n).impl

====
